---- MODULE Spec2Model ----
(***************************************************************************)
(* A model of src/result.js: the Result class (Ok / Err tagged union), its *)
(* factories (ok, err, fromJSON), its instance methods (chain, expect,     *)
(* map, orElse, toJSON) and its collection helpers (firstOk, okays).       *)
(*                                                                         *)
(* JavaScript objects have identity, so the model keeps two heaps: objs,   *)
(* the plain state objects ({ok, value} / {ok, error}), and results, the   *)
(* Result instances, each holding in #state a REFERENCE to a plain object. *)
(* A caller drives the class: every action is one call of one method with  *)
(* inputs drawn from small sets, and `last` records what the call did      *)
(* (what it returned or threw, and every invocation of the callback).      *)
(***************************************************************************)
EXTENDS Integers, Sequences, FiniteSets, TLC

VARIABLES objs, results, born, last, src, fo, ngens, gen, iters

vars == <<objs, results, born, last, src, fo, ngens, gen, iters>>

(* ------------------------------ bounds --------------------------------- *)

\* payloads (values and errors) are the numbers 0..MaxVal
MaxVal == 1
\* at most this many Result instances are constructed by the instance-method runs
MaxResults == 2
\* the arrays handed to firstOk / okays have at most this many elements
MaxLen == 3
\* at most this many okays(...) calls in one run
MaxGens == 2
\* the consumer iterates one returned sequence at most this many times
MaxIters == 2

(* --------------------------- JavaScript values ------------------------- *)

\* the value `undefined`: what a function that falls off its end returns and
\* what reading a missing property gives
Undefined == -1
\* marks a property that the plain object does not have
Absent == -2

Values == 0 .. MaxVal

\* reading property x.p of a plain object
Get(field) == IF field = Absent THEN Undefined ELSE field

\* the Ok<A> typedef: { ok: true, value }
OkState(value) == [ok |-> TRUE, value |-> value, error |-> Absent]
\* the Err<E> typedef: { ok: false, error }
ErrState(error) == [ok |-> FALSE, value |-> Absent, error |-> error]

WellFormed(o) ==
    \/ o.ok /\ o.value # Absent /\ o.error = Absent
    \/ ~o.ok /\ o.error # Absent /\ o.value = Absent

\* the Results built by ok(v) and err(e) have these states
TaggedStates == {OkState(v) : v \in Values} \cup {ErrState(e) : e \in Values}

\* every plain object a caller can hand to fromJSON: JavaScript checks no
\* types at run time, so besides the two tagged shapes the caller can pass
\* any tag with any of the two fields present or missing
JSONStates ==
    TaggedStates \cup [ok : BOOLEAN, value : {0, Absent}, error : {0, Absent}]

(* ------------------------------ callbacks ------------------------------ *)

\* the callbacks the caller passes to map / orElse / expect
Fns == {"inc", "zero", "id"}

Apply(f, x) ==
    CASE f = "inc"  -> IF x \in Values THEN (x + 1) % (MaxVal + 1) ELSE Undefined
      [] f = "zero" -> 0
      [] OTHER      -> x

\* the callbacks the caller passes to chain; each returns a Result
ChainFns == {"okInc", "toErr", "first"}

(* ------------------------------- the heap ------------------------------ *)

Heap == [objs |-> objs, results |-> results]

State(h, r) == h.objs[h.results[r]]

AllocObj(h, o) == [h EXCEPT !.objs = Append(@, o)]

\* constructor(state) { this.#state = state; }
Construct(h, objId) == [h EXCEPT !.results = Append(@, objId)]

\* the id the next constructed Result / allocated object will get
NextResult(h) == Len(h.results) + 1
NextObj(h) == Len(h.objs) + 1

\* static ok(value) { return new Result({ ok: true, value }); }
ResultOk(h, value) == Construct(AllocObj(h, OkState(value)), NextObj(h))

\* static err(error) { return new Result({ ok: false, error }); }
ResultErr(h, error) == Construct(AllocObj(h, ErrState(error)), NextObj(h))

\* static fromJSON(state) { return new Result(state); }
FromJSONMutDrop(h, objId) ==
    \* bug: rebuilds the state and loses the payload of an Err
    IF h.objs[objId].ok
    THEN Construct(h, objId)
    ELSE Construct(AllocObj(h, ErrState(0)), NextObj(h))

FromJSON(h, objId) == Construct(h, objId)

\* toJSON() { return this.#state; }   (the object itself, not a copy)
ToJSON(h, self) == h.results[self]

\* what a completed call reports
Done(h, kind, ret, calls) == [heap |-> h, kind |-> kind, ret |-> ret, calls |-> calls]

\* a chain callback applied to x: the heap afterwards and the Result returned
ApplyR(h, f, x) ==
    CASE f = "okInc" -> [heap |-> ResultOk(h, Apply("inc", x)), ret |-> NextResult(h)]
      [] f = "toErr" -> [heap |-> ResultErr(h, IF x \in Values THEN x ELSE 0),
                         ret  |-> NextResult(h)]
      [] OTHER       -> [heap |-> h, ret |-> 1]

\* chain(f)
ChainMutCallOnErr(h, self, f) ==
    \* bug: the callback also runs on an Err
    LET st == State(h, self)
        x  == IF st.ok THEN Get(st.value) ELSE Get(st.error)
        r  == ApplyR(h, f, x)
    IN  Done(r.heap, "result", r.ret, <<[arg |-> x, ret |-> r.ret]>>)

Chain(h, self, f) ==
    LET st == State(h, self) IN
    IF st.ok
    THEN LET x == Get(st.value)
             r == ApplyR(h, f, x)
         IN  Done(r.heap, "result", r.ret, <<[arg |-> x, ret |-> r.ret]>>)
    ELSE Done(h, "result", self, <<>>)

\* expect(orElse); f = "none" is a call without the argument
ExpectMutNoThrow(h, self, f) ==
    \* bug: returns the mapped error instead of throwing it
    LET st == State(h, self) IN
    IF st.ok
    THEN Done(h, "value", Get(st.value), <<>>)
    ELSE IF f # "none"
         THEN LET e == Get(st.error)
              IN  Done(h, "value", Apply(f, e), <<[arg |-> e, ret |-> Apply(f, e)]>>)
         ELSE Done(h, "throw", Get(st.error), <<>>)

Expect(h, self, f) ==
    LET st == State(h, self) IN
    IF st.ok
    THEN Done(h, "value", Get(st.value), <<>>)
    ELSE IF f # "none"
         THEN LET e == Get(st.error)
              IN  Done(h, "throw", Apply(f, e), <<[arg |-> e, ret |-> Apply(f, e)]>>)
         ELSE Done(h, "throw", Get(st.error), <<>>)

\* map(f)
MapMutInPlace(h, self, f) ==
    \* bug: overwrites the receiver's state instead of building a new Result
    LET st == State(h, self) IN
    IF st.ok
    THEN LET x == Get(st.value)
             y == Apply(f, x)
         IN  Done([h EXCEPT !.objs[h.results[self]].value = y], "result", self,
                  <<[arg |-> x, ret |-> y]>>)
    ELSE Done(h, "result", self, <<>>)

MapMutNoCall(h, self, f) ==
    \* bug: rewraps the old value without applying f
    LET st == State(h, self) IN
    IF st.ok
    THEN Done(ResultOk(h, Get(st.value)), "result", NextResult(h), <<>>)
    ELSE Done(h, "result", self, <<>>)

Map(h, self, f) ==
    LET st == State(h, self) IN
    IF st.ok
    THEN LET x == Get(st.value)
             y == Apply(f, x)
         IN  Done(ResultOk(h, y), "result", NextResult(h), <<[arg |-> x, ret |-> y]>>)
    ELSE Done(h, "result", self, <<>>)

\* orElse(onErr)
OrElseMutRawError(h, self, f) ==
    \* bug: hands back the error itself, onErr never runs
    LET st == State(h, self) IN
    IF st.ok
    THEN Done(h, "value", Get(st.value), <<>>)
    ELSE Done(h, "value", Get(st.error), <<>>)

OrElse(h, self, f) ==
    LET st == State(h, self) IN
    IF st.ok
    THEN Done(h, "value", Get(st.value), <<>>)
    ELSE LET e == Get(st.error)
         IN  Done(h, "value", Apply(f, e), <<[arg |-> e, ret |-> Apply(f, e)]>>)

(* -------------------- the caller: instance-method runs ------------------ *)

NoGen == [state |-> "none", cur |-> 0]

NoCall == [op |-> "none", self |-> 0, fn |-> "none", arg |-> 0, pre |-> 0,
           kind |-> "none", ret |-> 0, calls |-> <<>>]

Call(op, self, fn, arg, d) ==
    [op |-> op, self |-> self, fn |-> fn, arg |-> arg, pre |-> Len(results),
     kind |-> d.kind, ret |-> d.ret, calls |-> d.calls]

\* the heap after a call; born remembers each new instance's state as constructed
Commit(h) ==
    /\ objs' = h.objs
    /\ results' = h.results
    /\ born' = born \o [i \in 1 .. (Len(h.results) - Len(results)) |->
                            State(h, Len(results) + i)]

IterVars == <<src, fo, ngens, gen, iters>>

Room == Len(results) < MaxResults

\* the caller builds and transforms Results before it hands any of them to a
\* collection helper
Building == src = <<>> /\ fo.pc = "idle" /\ ngens = 0

CallOk ==
    /\ Building
    /\ Room
    /\ \E v \in Values :
         /\ Commit(ResultOk(Heap, v))
         /\ last' = Call("ok", 0, "none", v, Done(Heap, "result", NextResult(Heap), <<>>))
    /\ UNCHANGED IterVars

CallErr ==
    /\ Building
    /\ Room
    /\ \E e \in Values :
         /\ Commit(ResultErr(Heap, e))
         /\ last' = Call("err", 0, "none", e, Done(Heap, "result", NextResult(Heap), <<>>))
    /\ UNCHANGED IterVars

\* fromJSON of an object the caller wrote (or parsed) itself
CallFromJSONLiteral ==
    /\ Building
    /\ Room
    /\ \E o \in JSONStates :
         LET h == AllocObj(Heap, o) IN
         /\ Commit(FromJSON(h, NextObj(Heap)))
         /\ last' = Call("fromJSON", 0, "none", NextObj(Heap),
                         Done(h, "result", NextResult(Heap), <<>>))
    /\ UNCHANGED IterVars

\* fromJSON(r.toJSON()): the object the previous call returned
CallFromJSONRoundTrip ==
    /\ Building
    /\ Room
    /\ last.op = "toJSON"
    /\ Commit(FromJSON(Heap, last.ret))
    /\ last' = Call("fromJSON", last.self, "none", last.ret,
                    Done(Heap, "result", NextResult(Heap), <<>>))
    /\ UNCHANGED IterVars

CallToJSON ==
    /\ Building
    /\ \E self \in 1 .. Len(results) :
         last' = Call("toJSON", self, "none", 0,
                      Done(Heap, "object", ToJSON(Heap, self), <<>>))
    /\ UNCHANGED <<objs, results, born>>
    /\ UNCHANGED IterVars

CallMap ==
    /\ Building
    /\ \E self \in 1 .. Len(results), f \in Fns :
         LET d == Map(Heap, self, f) IN
         /\ Len(d.heap.results) <= MaxResults
         /\ Commit(d.heap)
         /\ last' = Call("map", self, f, 0, d)
    /\ UNCHANGED IterVars

CallChain ==
    /\ Building
    /\ \E self \in 1 .. Len(results), f \in ChainFns :
         LET d == Chain(Heap, self, f) IN
         /\ Len(d.heap.results) <= MaxResults
         /\ Commit(d.heap)
         /\ last' = Call("chain", self, f, 0, d)
    /\ UNCHANGED IterVars

CallOrElse ==
    /\ Building
    /\ \E self \in 1 .. Len(results), f \in Fns :
         LET d == OrElse(Heap, self, f) IN
         /\ Commit(d.heap)
         /\ last' = Call("orElse", self, f, 0, d)
    /\ UNCHANGED IterVars

CallExpect ==
    /\ Building
    /\ \E self \in 1 .. Len(results), f \in Fns \cup {"none"} :
         LET d == Expect(Heap, self, f) IN
         /\ Commit(d.heap)
         /\ last' = Call("expect", self, f, 0, d)
    /\ UNCHANGED IterVars

Init ==
    /\ objs = <<>>
    /\ results = <<>>
    /\ born = <<>>
    /\ last = NoCall
    /\ src = <<>>
    /\ fo = [pc |-> "idle", cur |-> 0, ret |-> 0]
    /\ ngens = 0
    /\ gen = NoGen
    /\ iters = <<>>

Next ==
    \/ CallOk
    \/ CallErr
    \/ CallFromJSONLiteral
    \/ CallFromJSONRoundTrip
    \/ CallToJSON
    \/ CallMap
    \/ CallChain
    \/ CallOrElse
    \/ CallExpect

Spec == Init /\ [][Next]_vars

(* ------------------- the collection helpers: firstOk, okays ------------- *)

\* Both helpers walk their argument with for-of.  The argument here is an
\* array, so each for-of gets a fresh array iterator; cur is that iterator's
\* position, that is, how many elements the loop has pulled from its source.

\* static firstOk(results): one turn of the for-of loop.  f is the loop's
\* state; pulling past the end ends the loop and the function returns
\* nothing (undefined); an Ok element returns its value at once.
FirstOkStepMutLastOk(h, arr, f) ==
    \* bug: keeps scanning after an Ok and returns the last one
    IF f.cur = Len(arr)
    THEN [pc |-> "done", cur |-> f.cur, ret |-> f.ret]
    ELSE LET st == State(h, arr[f.cur + 1]) IN
         [pc |-> "loop", cur |-> f.cur + 1,
          ret |-> IF st.ok THEN Get(st.value) ELSE f.ret]

FirstOkStep(h, arr, f) ==
    IF f.cur = Len(arr)
    THEN [pc |-> "done", cur |-> f.cur, ret |-> Undefined]
    ELSE LET st == State(h, arr[f.cur + 1]) IN
         IF st.ok
         THEN [pc |-> "done", cur |-> f.cur + 1, ret |-> Get(st.value)]
         ELSE [pc |-> "loop", cur |-> f.cur + 1, ret |-> Undefined]

\* static okays(results): calling the generator function runs none of its
\* body; it returns a generator object suspended at its start
Okays == [state |-> "suspendedStart", cur |-> 0]

\* the smallest index after cur that holds an Ok, 0 when there is none
NextOkIndex(h, arr, cur) ==
    LET S == {j \in (cur + 1) .. Len(arr) : State(h, arr[j]).ok}
    IN  IF S = {} THEN 0 ELSE CHOOSE j \in S : \A k \in S : j <= k

\* next() on the generator object: runs resultIterator's body up to its next
\* yield, or to its end.  A completed generator stays completed.
GenNextMutEager(h, arr, g) ==
    \* bug: after a yield the loop body runs on to the end of the input
    IF g.state = "completed"
    THEN [gen |-> g, done |-> TRUE, value |-> Undefined]
    ELSE LET j == NextOkIndex(h, arr, g.cur) IN
         IF j = 0
         THEN [gen |-> [state |-> "completed", cur |-> Len(arr)],
               done |-> TRUE, value |-> Undefined]
         ELSE [gen |-> [state |-> "suspendedYield", cur |-> Len(arr)],
               done |-> FALSE, value |-> Get(State(h, arr[j]).value)]

GenNextMutRestart(h, arr, g) ==
    \* bug: a completed generator starts over from the first element
    LET from == IF g.state = "completed" THEN 0 ELSE g.cur
        j    == NextOkIndex(h, arr, from)
    IN  IF j = 0
        THEN [gen |-> [state |-> "completed", cur |-> Len(arr)],
              done |-> TRUE, value |-> Undefined]
        ELSE [gen |-> [state |-> "suspendedYield", cur |-> j],
              done |-> FALSE, value |-> Get(State(h, arr[j]).value)]

GenNext(h, arr, g) ==
    IF g.state = "completed"
    THEN [gen |-> g, done |-> TRUE, value |-> Undefined]
    ELSE LET j == NextOkIndex(h, arr, g.cur) IN
         IF j = 0
         THEN [gen |-> [state |-> "completed", cur |-> Len(arr)],
               done |-> TRUE, value |-> Undefined]
         ELSE [gen |-> [state |-> "suspendedYield", cur |-> j],
               done |-> FALSE, value |-> Get(State(h, arr[j]).value)]

\* return() on the generator object, which for-of calls when its body breaks:
\* the generator completes where it stands and pulls nothing more
GenReturn(g) == [state |-> "completed", cur |-> g.cur]

HeapVars == <<objs, results, born, last>>

\* The caller runs one helper at a time over the array src, once the array is
\* made (no method call on its elements is under way): firstOk (any number of
\* times), or okays.  gen is the generator object the latest
\* okays(src) call returned and iters what the consumer got out of each of
\* its iterations over that object, in order.

CallFirstOk ==
    /\ last = NoCall
    /\ ngens = 0
    /\ fo.pc # "loop"
    /\ fo' = [pc |-> "loop", cur |-> 0, ret |-> Undefined]
    /\ UNCHANGED <<HeapVars, src, ngens, gen, iters>>

FirstOkLoop ==
    /\ fo.pc = "loop"
    /\ fo' = FirstOkStep(Heap, src, fo)
    /\ UNCHANGED <<HeapVars, src, ngens, gen, iters>>

Running == {i \in 1 .. Len(iters) : iters[i].status = "running"}

CallOkays ==
    /\ last = NoCall
    /\ fo.pc = "idle"
    /\ ngens < MaxGens
    /\ Running = {}
    /\ ngens' = ngens + 1
    /\ gen' = Okays
    /\ iters' = <<>>
    /\ UNCHANGED <<HeapVars, src, fo>>

\* the consumer starts a for-of (or a spread) over the sequence okays
\* returned; a generator object is its own iterator, so every loop over it
\* drives that one object
IterStart ==
    /\ ngens > 0
    /\ Len(iters) < MaxIters
    /\ Running = {}
    /\ iters' = Append(iters, [out |-> <<>>, status |-> "running"])
    /\ UNCHANGED <<HeapVars, src, fo, ngens, gen>>

\* the consumer asks for the next value
IterNext ==
    /\ \E i \in Running :
         LET r == GenNext(Heap, src, gen) IN
         /\ gen' = r.gen
         /\ iters' = [iters EXCEPT ![i] =
                IF r.done
                THEN [@ EXCEPT !.status = "done"]
                ELSE [@ EXCEPT !.out = Append(@, r.value)]]
    /\ UNCHANGED <<HeapVars, src, fo, ngens>>

\* the consumer breaks out of its for-of, in the loop body and so with a
\* value in hand: the loop closes the iterator
IterBreak ==
    /\ \E i \in Running :
         /\ iters[i].out # <<>>
         /\ gen' = GenReturn(gen)
         /\ iters' = [iters EXCEPT ![i].status = "broken"]
    /\ UNCHANGED <<HeapVars, src, fo, ngens>>

\* the consumer, calling next() by hand, just stops asking
IterLeave ==
    /\ \E i \in Running :
         iters' = [iters EXCEPT ![i].status = "left"]
    /\ UNCHANGED <<HeapVars, src, fo, ngens, gen>>

\* the helpers are run on arrays of Results built by ok(v) and err(e)
InitIter ==
    /\ \E n \in 0 .. MaxLen :
         /\ objs \in [1 .. n -> TaggedStates]
         /\ results = [i \in 1 .. n |-> i]
         /\ src = [i \in 1 .. n |-> i]
    /\ born = objs
    /\ last = NoCall
    /\ fo = [pc |-> "idle", cur |-> 0, ret |-> 0]
    /\ ngens = 0
    /\ gen = NoGen
    /\ iters = <<>>

NextIter ==
    \/ CallFirstOk
    \/ FirstOkLoop
    \/ CallOkays
    \/ IterStart
    \/ IterNext
    \/ IterBreak
    \/ IterLeave

SpecIter == InitIter /\ [][NextIter]_vars

\* Both kinds of run in one: the caller builds Results with the factories and
\* the instance methods, then puts every Result built so far into one array,
\* in the order they were built, and runs the helpers over it.
TakeArray ==
    /\ Building
    /\ results # <<>>
    /\ src' = [i \in 1 .. Len(results) |-> i]
    /\ last' = NoCall
    /\ UNCHANGED <<objs, results, born, fo, ngens, gen, iters>>

NextAll ==
    \/ Next
    \/ TakeArray
    \/ NextIter

SpecAll == Init /\ [][NextAll]_vars

(* ======================= the claims, instance methods =================== *)

\* the receiver of the last call, as it was constructed
Recv == born[last.self]

\* what each chain callback builds from x
ChainFnState(f, x) ==
    CASE f = "okInc" -> OkState((x + 1) % (MaxVal + 1))
      [] f = "toErr" -> ErrState(x)
      [] OTHER       -> born[1]

\* C1: ok(v).chain(f) is exactly the Result f(v) returned, f invoked once
\* with v, nothing wrapped around it; err(e).chain(f) is an Err equivalent
\* to err(e) and f is never invoked.
ChainLaw ==
    last.op = "chain" =>
        /\ last.kind = "result"
        /\ \A v \in Values : Recv = OkState(v) =>
              /\ Len(last.calls) = 1
              /\ last.calls[1].arg = v
              /\ last.ret = last.calls[1].ret
              /\ State(Heap, last.ret) = ChainFnState(last.fn, v)
              /\ Len(results) <= last.pre + 1
        /\ \A e \in Values : Recv = ErrState(e) =>
              /\ last.calls = <<>>
              /\ State(Heap, last.ret) = ErrState(e)
              /\ Len(results) = last.pre

ChainWitness ==
    /\ last.op = "chain"
    /\ last.fn = "toErr"
    /\ Recv = OkState(1)
    /\ last.calls = <<[arg |-> 1, ret |-> last.ret]>>
    /\ State(Heap, last.ret) = ErrState(1)

\* C2: ok(v).map(f) equals ok(f(v)), f invoked once with v; err(e).map(f)
\* equals err(e), the error untouched and f never invoked.
MapLaw ==
    last.op = "map" =>
        /\ last.kind = "result"
        /\ \A v \in Values : Recv = OkState(v) =>
              /\ last.calls = <<[arg |-> v, ret |-> Apply(last.fn, v)]>>
              /\ State(Heap, last.ret) = OkState(Apply(last.fn, v))
        /\ \A e \in Values : Recv = ErrState(e) =>
              /\ last.calls = <<>>
              /\ State(Heap, last.ret) = ErrState(e)

MapWitness ==
    /\ last.op = "map"
    /\ last.fn = "inc"
    /\ Recv = OkState(0)
    /\ State(Heap, last.ret) = OkState(1)
    /\ last.calls = <<[arg |-> 0, ret |-> 1]>>

\* C3: ok(v).expect() and ok(v).expect(g) return v, raise nothing and never
\* invoke g; err(e).expect() raises e itself; err(e).expect(g) invokes g
\* with e and raises g(e); expect never returns normally on an Err.
ExpectLaw ==
    last.op = "expect" =>
        /\ \A v \in Values : Recv = OkState(v) =>
              /\ last.kind = "value"
              /\ last.ret = v
              /\ last.calls = <<>>
        /\ \A e \in Values : Recv = ErrState(e) =>
              /\ last.kind = "throw"
              /\ last.fn = "none" => last.ret = e /\ last.calls = <<>>
              /\ last.fn # "none" =>
                    /\ last.calls = <<[arg |-> e, ret |-> Apply(last.fn, e)]>>
                    /\ last.ret = Apply(last.fn, e)

ExpectWitness ==
    /\ last.op = "expect"
    /\ last.fn = "inc"
    /\ Recv = ErrState(0)
    /\ last.kind = "throw"
    /\ last.ret = 1

\* C4: ok(v).orElse(g) returns the plain value v for any g; err(e).orElse(g)
\* invokes g with e and returns exactly g(e), wrapped in no Result; orElse
\* itself never raises.
OrElseLaw ==
    last.op = "orElse" =>
        /\ last.kind = "value"
        /\ Len(results) = last.pre
        /\ \A v \in Values : Recv = OkState(v) =>
              /\ last.ret = v
              /\ last.calls = <<>>
        /\ \A e \in Values : Recv = ErrState(e) =>
              /\ last.calls = <<[arg |-> e, ret |-> Apply(last.fn, e)]>>
              /\ last.ret = Apply(last.fn, e)

OrElseWitness ==
    /\ last.op = "orElse"
    /\ last.fn = "inc"
    /\ Recv = ErrState(0)
    /\ last.kind = "value"
    /\ last.ret = 1

\* C8: toJSON yields exactly {ok: true, value} for an Ok and
\* {ok: false, error} for an Err; fromJSON lifts a tagged structure without
\* altering its tag or payload; fromJSON(r.toJSON()) is equivalent to r.
RoundTrip ==
    /\ last.op = "ok" => State(Heap, last.ret) = OkState(last.arg)
    /\ last.op = "err" => State(Heap, last.ret) = ErrState(last.arg)
    /\ last.op = "toJSON" =>
          /\ last.kind = "object"
          /\ objs[last.ret] = Recv
    /\ last.op = "fromJSON" =>
          /\ last.kind = "result"
          /\ last.ret = last.pre + 1
          /\ State(Heap, last.ret) = objs[last.arg]
          /\ last.self # 0 => State(Heap, last.ret) = Recv

RoundTripWitness ==
    /\ last.op = "fromJSON"
    /\ last.self # 0
    /\ last.ret # last.self
    /\ Recv = ErrState(1)
    /\ State(Heap, last.ret) = ErrState(1)

\* no Result differs from the state it was constructed with
Immutable ==
    /\ Len(born) = Len(results)
    /\ \A i \in 1 .. Len(results) : State(Heap, i) = born[i]

\* C9 as stated: no operation alters a Result, and every transformation
\* (map, chain) returns a new Result: one that did not exist before the call
\* (for chain, the one its callback returned).
ImmutableAndAlwaysNew ==
    /\ Immutable
    /\ last.op = "map" => last.ret > last.pre
    /\ last.op = "chain" =>
          \/ last.ret > last.pre
          \/ last.calls # <<>> /\ last.ret = last.calls[1].ret

\* C9 as amended: no operation alters a Result; map on an Ok returns a new
\* Result, chain on an Ok returns the Result its callback returned, and map
\* and chain on an Err return the receiver itself; toJSON, orElse and expect
\* construct nothing.
ImmutableReceiver ==
    /\ Immutable
    /\ last.op \in {"map", "chain"} /\ ~Recv.ok =>
          last.ret = last.self /\ Len(results) = last.pre
    /\ last.op = "map" /\ Recv.ok =>
          last.ret = last.pre + 1 /\ Len(results) = last.pre + 1
    /\ last.op = "chain" /\ Recv.ok => last.ret = last.calls[1].ret
    /\ last.op \in {"toJSON", "orElse", "expect"} => Len(results) = last.pre

ImmutableWitness ==
    /\ last.op = "map"
    /\ Recv = ErrState(1)
    /\ last.ret = last.self
    /\ Len(results) = 2

\* C10: every Result represents exactly one variant, its tag agreeing with
\* the one field it has: whatever fromJSON is given, it produces no Result
\* whose tag disagrees with its populated field.
VariantConsistent ==
    \A i \in 1 .. Len(results) : WellFormed(State(Heap, i))

(* ===================== the claims, collection helpers =================== *)

IsOk(r) == State(Heap, r).ok

\* the Ok elements of the input, in order, and their values
OkResults == SelectSeq(src, IsOk)
OkValues == [k \in 1 .. Len(OkResults) |-> Get(State(Heap, OkResults[k]).value)]

\* how many elements of the input one has pulled by the time one holds its
\* k-th Ok (0 for k = 0)
KthOk(k) ==
    IF k = 0 THEN 0
    ELSE CHOOSE j \in 1 .. Len(src) :
            IsOk(src[j]) /\ Cardinality({i \in 1 .. j : IsOk(src[i])}) = k

\* C5: firstOk scans in order and returns the value of the first Ok; it pulls
\* nothing after that element; with no Ok in the input (the empty input
\* included) it returns undefined after pulling every element.
FirstOkLaw ==
    LET last1 == IF OkResults = <<>> THEN Len(src) ELSE KthOk(1) IN
    /\ fo.cur <= last1
    /\ fo.pc = "loop" => \A j \in 1 .. fo.cur : ~IsOk(src[j])
    /\ fo.pc = "done" =>
          /\ fo.cur = last1
          /\ fo.ret = IF OkResults = <<>> THEN Undefined ELSE OkValues[1]

FirstOkWitness ==
    /\ fo.pc = "done"
    /\ Len(src) = 3
    /\ ~IsOk(src[1]) /\ IsOk(src[2]) /\ IsOk(src[3])
    /\ fo.cur = 2
    /\ fo.ret = 1
    /\ OkValues = <<1, 0>>

RECURSIVE Concat(_, _)
\* the values the first n iterations got, one after the other
Concat(its, n) == IF n = 0 THEN <<>> ELSE Concat(its, n - 1) \o its[n].out

Handed == Concat(iters, Len(iters))

\* C6: the sequence okays returns yields exactly the values of the Ok
\* elements, in order; calling okays pulls nothing from the input, and when
\* the k-th value is handed over the input has been pulled up to and
\* including its k-th Ok, not further, until the consumer asks again.
OkaysLazy ==
    LET k == Len(Handed) IN
    /\ k <= Len(OkValues)
    /\ Handed = SubSeq(OkValues, 1, k)
    /\ gen.state = "suspendedStart" => gen.cur = 0 /\ k = 0
    /\ gen.state = "suspendedYield" => k >= 1 /\ gen.cur = KthOk(k)
    /\ gen.state = "completed" => gen.cur \in {KthOk(k), Len(src)}
    /\ Len(iters) >= 1 /\ iters[1].status = "done" => iters[1].out = OkValues

OkaysWitness ==
    /\ gen.state = "suspendedYield"
    /\ Len(src) = 3
    /\ ~IsOk(src[1]) /\ IsOk(src[2]) /\ IsOk(src[3])
    /\ iters = <<[out |-> <<1>>, status |-> "running"]>>
    /\ gen.cur = 2

\* C7 as stated: iterating the sequence one okays(array) call returned again,
\* after a complete or a partial iteration, yields all Ok values of the
\* input from the beginning.
RestartableSequence ==
    \A i \in 1 .. Len(iters) : iters[i].status = "done" => iters[i].out = OkValues

\* C7 as amended: the sequence one okays(array) call returned can be
\* consumed once. Its first iteration, run to the end, yields all Ok values;
\* an iteration after a complete or a broken-off one yields nothing; one
\* after an iteration that merely stopped asking yields only the Ok values
\* not handed out yet. All Ok values from the beginning come again only from
\* a new okays(array) call.
SingleUseSequence ==
    /\ Len(iters) >= 1 /\ iters[1].status = "done" => iters[1].out = OkValues
    /\ \A i \in 2 .. Len(iters) :
          /\ (\E j \in 1 .. i - 1 : iters[j].status \in {"done", "broken"}) =>
                iters[i].out = <<>>
          /\ (\A j \in 1 .. i - 1 : iters[j].status = "left") /\ iters[i].status = "done" =>
                Concat(iters, i) = OkValues

SingleUseWitness ==
    /\ ngens = 2
    /\ OkValues # <<>>
    /\ Len(iters) = 2
    /\ iters[1] = [out |-> OkValues, status |-> "done"]
    /\ iters[2] = [out |-> <<>>, status |-> "done"]

====
